---- MODULE Spec2Model ----
(***************************************************************************)
(* RuleList ruleset generator (src/start.py): the concurrent               *)
(* fetch - transform - merge - convert pipeline of RulesetGenerator.       *)
(*                                                                         *)
(* Text is a sequence of one-character strings, so that the Python string  *)
(* operations the code uses (splitlines, strip, join, startswith,          *)
(* endswith, sorted(set(...))) are computed and not assumed.               *)
(***************************************************************************)
EXTENDS Integers, Sequences, FiniteSets, TLC

(***************************************************************************)
(* Python str operations                                                   *)
(***************************************************************************)

NL == "\n"

\* Characters str.strip() removes and str.splitlines() splits at, among the
\* characters the modelled texts are made of.
Whitespace == {" ", NL}

\* Unicode code point order, which sorted() uses on str.
Ord(c) ==
    CASE c = NL  -> 10
      [] c = " " -> 32
      [] c = "#" -> 35
      [] c = "'" -> 39
      [] c = "+" -> 43
      [] c = "-" -> 45
      [] c = "." -> 46
      [] c = ":" -> 58
      [] c = "a" -> 97
      [] c = "b" -> 98
      [] c = "c" -> 99
      [] c = "d" -> 100
      [] c = "l" -> 108
      [] c = "m" -> 109
      [] c = "o" -> 111
      [] c = "p" -> 112
      [] c = "x" -> 120
      [] c = "y" -> 121
      [] OTHER   -> 0

\* s < t for str
RECURSIVE StrLess(_, _)
StrLess(s, t) ==
    IF t = <<>> THEN FALSE
    ELSE IF s = <<>> THEN TRUE
    ELSE IF Ord(Head(s)) # Ord(Head(t)) THEN Ord(Head(s)) < Ord(Head(t))
    ELSE StrLess(Tail(s), Tail(t))

\* str.strip()
RECURSIVE LStrip(_)
LStrip(s) ==
    IF s # <<>> /\ Head(s) \in Whitespace THEN LStrip(Tail(s)) ELSE s

RECURSIVE RStrip(_)
RStrip(s) ==
    IF s # <<>> /\ s[Len(s)] \in Whitespace
    THEN RStrip(SubSeq(s, 1, Len(s) - 1))
    ELSE s

Strip(s) == RStrip(LStrip(s))

\* str.startswith / str.endswith
StartsWith(s, p) == Len(s) >= Len(p) /\ SubSeq(s, 1, Len(p)) = p

EndsWith(s, p) ==
    Len(s) >= Len(p) /\ SubSeq(s, Len(s) - Len(p) + 1, Len(s)) = p

\* str.splitlines(): a line ends at each newline; a final newline opens no
\* further line and the empty string has no lines.
RECURSIVE SplitFrom(_, _)
SplitFrom(s, cur) ==
    IF s = <<>> THEN (IF cur = <<>> THEN <<>> ELSE <<cur>>)
    ELSE IF Head(s) = NL THEN <<cur>> \o SplitFrom(Tail(s), <<>>)
    ELSE SplitFrom(Tail(s), Append(cur, Head(s)))

SplitLines(s) == SplitFrom(s, <<>>)

\* "\n".join(lines)
RECURSIVE JoinLines(_)
JoinLines(lines) ==
    IF lines = <<>> THEN <<>>
    ELSE IF Len(lines) = 1 THEN lines[1]
    ELSE lines[1] \o <<NL>> \o JoinLines(Tail(lines))

\* "".join(parts)
RECURSIVE Concat(_)
Concat(parts) ==
    IF parts = <<>> THEN <<>> ELSE Head(parts) \o Concat(Tail(parts))

SeqToSet(seq) == {seq[i] : i \in DOMAIN seq}

\* sorted(S) for a set S of str
RECURSIVE SortedStr(_)
SortedStr(S) ==
    IF S = {} THEN <<>>
    ELSE LET m == CHOOSE x \in S : \A y \in S \ {x} : StrLess(x, y)
         IN  <<m>> \o SortedStr(S \ {m})

(***************************************************************************)
(* TextProcessor                                                           *)
(***************************************************************************)

NonBlank(line) == Strip(line) # <<>>

\* Variant: the comment sign is looked for in the line as it is
KeepUnindented(line) == Strip(line) # <<>> /\ ~StartsWith(line, <<"#">>)

\* if line.strip() and not line.strip().startswith('#')
KeepRuleLine(line) ==
    Strip(line) # <<>> /\ ~StartsWith(Strip(line), <<"#">>)

remove_comments_and_empty(text) ==
    JoinLines(SelectSeq(SplitLines(text), KeepRuleLine))

add_prefix_suffix(text, prefix, suffix) ==
    LET lines == SplitLines(text)
    IN  JoinLines([i \in DOMAIN lines |-> prefix \o lines[i] \o suffix])

format_pihole(text) ==
    add_prefix_suffix(text, <<" ", " ", "-", " ", "'", "+", ".">>, <<"'">>)

format_yaml_list(text) ==
    add_prefix_suffix(text, <<" ", " ", "-", " ", "'">>, <<"'">>)

(***************************************************************************)
(* Configuration: the task table and the base settings                     *)
(***************************************************************************)

\* config['tasks'], in the order of the dict
TaskNames == <<"a", "b">>

Tasks == SeqToSet(TaskNames)

\* TaskConfig.format
TaskFormat == [a |-> "yaml", b |-> "text"]

\* TaskConfig.sources: SourceConfig.processors of each source (<<>> is None)
TaskSources ==
    [a |-> << <<>>, <<"strip_spaces">> >>,
     b |-> << <<"remove_comments_and_empty", "format_pihole">> >>]

\* enumerate(sources): positions count from 0
SourceIdx(t) == 0 .. (Len(TaskSources[t]) - 1)

SourceProcessors(t, i) == TaskSources[t][i + 1]

\* response.text: the bodies the remote source of (t, i) may answer with
RawBodies(t, i) ==
    IF t = "a" /\ i = 0 THEN {<<"p", NL, "x", NL>>, <<"#", "c", NL>>}
    ELSE IF t = "a" THEN {<<"x", NL, "y">>, <<" ", NL>>}
    ELSE {<<"b", NL, "#", "c", NL, "a", NL>>, <<>>}

\* BaseConfigModel: the defaults, and a configuration with every limit at 1
BaseConfigs ==
    { [max_concurrent_downloads |-> 10, max_concurrent_tasks |-> 3,
       max_retries |-> 3],
      [max_concurrent_downloads |-> 1, max_concurrent_tasks |-> 1,
       max_retries |-> 1] }

\* stop_after_attempt(3) of the retry decorator
StopAfterAttempt == 3

\* Consecutive transient failures (timeout, connection error, 429/5xx) a
\* remote source may answer one session.get with.
MaxSrvFails == 4

\* Characters a write may have put on disk when it is interrupted.
MaxPartial == 1

(***************************************************************************)
(* Files                                                                   *)
(***************************************************************************)

NoFile == [exists |-> FALSE, data |-> <<>>]

FileOf(d) == [exists |-> TRUE, data |-> d]

\* Path.stat().st_size
Size(f) == Len(f.data)

\* A file name is the sequence of its dot-separated parts, f"{a}.{b}" the
\* concatenation of the parts of a and of b; a task name and a format are
\* given by their parts.

\* work_dir / f"{name}.{format}"
StagePathOf(name, format) == <<"work">> \o name \o format

\* temp_path.with_suffix(temp_path.suffix + '.tmp')
TempFilePathOf(name, format) == StagePathOf(name, format) \o <<"tmp">>

\* work_dir / f"{name}.mrs"
TempMrsPathOf(name) == <<"work">> \o name \o <<"mrs">>

\* output_dir / f"{name}.{format}"
FinalSourcePathOf(name, format) == <<"out">> \o name \o format

\* output_dir / f"{name}.mrs"
FinalMrsPathOf(name) == <<"out">> \o name \o <<"mrs">>

\* The paths of the configured tasks
StagePath(t) == StagePathOf(<<t>>, <<TaskFormat[t]>>)

\* Variant: the body is written to the staging path itself
TempFileInPlace(t) == <<"work", t, TaskFormat[t]>>

TempFilePath(t) == TempFilePathOf(<<t>>, <<TaskFormat[t]>>)

TempMrsPath(t) == TempMrsPathOf(<<t>>)

FinalSourcePath(t) == FinalSourcePathOf(<<t>>, <<TaskFormat[t]>>)

FinalMrsPath(t) == FinalMrsPathOf(<<t>>)

\* work_dir / "mihomo"
ToolPath == <<"work", "mihomo">>

Paths ==
    {ToolPath}
    \cup {StagePath(t) : t \in Tasks} \cup {TempFilePath(t) : t \in Tasks}
    \cup {TempMrsPath(t) : t \in Tasks}
    \cup {FinalSourcePath(t) : t \in Tasks} \cup {FinalMrsPath(t) : t \in Tasks}

\* What an earlier run left behind, the executable, and a converted ruleset
OldData == <<"o">>

ToolData == <<"m">>

MrsData == <<"m">>

(***************************************************************************)
(* State                                                                   *)
(***************************************************************************)

VARIABLES
    cfg,                  \* self.config['base']
    files,                \* the file system: path -> file
    runPc,                \* where run() is
    exitStatus,           \* <<>> while the process runs, then <<its exit status>>
    collected,            \* tasks whose future run() has taken the result of
    all_generated_files,  \* run(): the aggregated artifact paths
    validatedOk,          \* _validate_generated_files: the paths that passed
    published,            \* commit_changes() was invoked
    taskPc,               \* where process_task(t) is
    taskErr,              \* what ended process_task(t) without artifacts
    taskResult,           \* what process_task(t) returned
    toolExit,             \* <<>>, or <<exit code>> of the conversion subprocess of t
    fut,                  \* process_task: the future of each source
    results,              \* process_task: results, in insertion order
    body,                 \* _write_processed_content: final_content
    calc                  \* a function of the pipeline evaluated on its own

vars ==
    <<calc, cfg, files, runPc, exitStatus, collected, all_generated_files,
      validatedOk, published, taskPc, taskErr, taskResult, toolExit, fut,
      results, body>>

runVars == <<runPc, exitStatus, collected, all_generated_files, validatedOk,
             published>>

fetchVars == <<fut, results>>

NewFuture == [st |-> "pending", attempts |-> 0, content |-> <<>>, soft |-> FALSE]

\* A future after the executor of process_task is gone
ReleasedFuture ==
    [st |-> "released", attempts |-> 0, content |-> <<>>, soft |-> FALSE]

\* calc while the pipeline runs
NoCalc == [op |-> "none"]

TaskTerminal == {"done", "failed", "raised"}

WritePcs == {"write", "writing", "replace"}

\* The file system a run starts in: an empty work and output directory, or
\* the staged text and the artifacts of an earlier run; the conversion tool
\* is there or not.
InitialFiles(fresh, tool) ==
    [p \in Paths |->
        IF p = ToolPath THEN (IF tool THEN FileOf(ToolData) ELSE NoFile)
        ELSE IF fresh THEN NoFile
        ELSE IF \E t \in Tasks :
                    p \in {StagePath(t), FinalSourcePath(t), FinalMrsPath(t)}
             THEN FileOf(OldData)
        ELSE NoFile]

Init ==
    /\ cfg \in BaseConfigs
    /\ \E fresh \in BOOLEAN, tool \in BOOLEAN : files = InitialFiles(fresh, tool)
    /\ runPc = "init_env"
    /\ exitStatus = <<>>
    /\ collected = {}
    /\ all_generated_files = <<>>
    /\ validatedOk = {}
    /\ published = FALSE
    /\ taskPc = [t \in Tasks |-> "pending"]
    /\ taskErr = [t \in Tasks |-> "none"]
    /\ taskResult = [t \in Tasks |-> <<>>]
    /\ toolExit = [t \in Tasks |-> <<>>]
    /\ fut = [t \in Tasks |-> [i \in SourceIdx(t) |-> NewFuture]]
    /\ results = [t \in Tasks |-> <<>>]
    /\ body = [t \in Tasks |-> <<>>]
    /\ calc = NoCalc

\* The worker threads of run()'s executor live until its with-block is left.
PoolAlive == runPc \in {"tasks", "aborting"}

(***************************************************************************)
(* init_env                                                                *)
(***************************************************************************)

\* init_env and _download_mihomo: the tool is downloaded when it is absent;
\* a failed download ends the process with sys.exit(1).
InitEnv ==
    /\ runPc = "init_env"
    /\ UNCHANGED <<calc, cfg, collected, all_generated_files, validatedOk, published,
                   taskPc, taskErr, taskResult, toolExit, fut, results, body>>
    /\ IF files[ToolPath].exists
       THEN /\ runPc' = "tasks"
            /\ UNCHANGED <<files, exitStatus>>
       ELSE \/ /\ files' = [files EXCEPT ![ToolPath] = FileOf(ToolData)]
               /\ runPc' = "tasks"
               /\ UNCHANGED exitStatus
            \/ /\ runPc' = "env_exit"
               /\ exitStatus' = <<1>>
               /\ UNCHANGED files

(***************************************************************************)
(* _download_and_process_source                                            *)
(***************************************************************************)

\* self.processors[processor_name](content), or content for an unknown name
ApplyProcessor(name, content) ==
    CASE name = "remove_comments_and_empty" -> remove_comments_and_empty(content)
      [] name = "format_pihole" -> format_pihole(content)
      [] name = "format_yaml_list" -> format_yaml_list(content)
      [] OTHER -> content

RECURSIVE ApplyChain(_, _)
ApplyChain(names, content) ==
    IF names = <<>> THEN content
    ELSE ApplyChain(Tail(names), ApplyProcessor(Head(names), content))

\* Variant: the declared processors, also when there are none
DeclaredProcessors(procs) == procs

\* source.processors or ["remove_comments_and_empty"]
EffectiveProcessors(procs) ==
    IF procs = <<>> THEN <<"remove_comments_and_empty">> ELSE procs

\* Variant: the content is returned as the processors left it
KeepContent(content) == content

\* if content and not content.endswith('\n'): content += '\n'
EnsureNewline(content) ==
    IF content # <<>> /\ ~EndsWith(content, <<NL>>)
    THEN content \o <<NL>>
    ELSE content

\* The content a successful attempt returns for the response text raw
ProcessSource(procs, raw) ==
    EnsureNewline(ApplyChain(EffectiveProcessors(procs), raw))

\* The session's adapter, Retry(total=max_retries): session.get raises when
\* the source fails more often than the adapter retries.
AdapterGivesUp(fails) == fails > cfg.max_retries

\* Variant: a decorator without a stop condition
RetryNeverStops(attempt) == FALSE

\* stop=stop_after_attempt(3)
RetryStops(attempt) == attempt >= StopAfterAttempt

\* The tasks a worker of run()'s executor is processing
RunningTasks == {u \in Tasks : taskPc[u] \notin TaskTerminal \cup {"pending"}}

\* The sources of t a worker of process_task's executor is fetching
InFlight(t) == {j \in SourceIdx(t) : fut[t][j].st = "running"}

\* Variant: an executor that starts a thread for every submitted call
WorkerAlwaysFree(busy, max_workers) == TRUE

\* ThreadPoolExecutor(max_workers=n): a submitted call starts when fewer
\* than n workers are busy, and is queued otherwise.
WorkerFree(busy, max_workers) == Cardinality(busy) < max_workers

\* ThreadPoolExecutor(max_workers=max_concurrent_downloads): a worker takes
\* the submitted calls in order.
StartFetch(t, i) ==
    /\ PoolAlive
    /\ taskPc[t] = "fetching"
    /\ fut[t][i].st = "pending"
    /\ \A j \in SourceIdx(t) : j < i => fut[t][j].st # "pending"
    /\ WorkerFree(InFlight(t), cfg.max_concurrent_downloads)
    /\ fut' = [fut EXCEPT ![t][i].st = "running"]
    /\ UNCHANGED <<calc, cfg, files, runVars, taskPc, taskErr, taskResult, toolExit,
                   results, body>>

\* Variant: except Exception: raise, so that the decorator retries
SoftFailureRetried(t, i, n) ==
    /\ fut' = [fut EXCEPT ![t][i] =
                  [st |-> IF n >= StopAfterAttempt THEN "raised" ELSE "running",
                   attempts |-> n, content |-> <<>>, soft |-> TRUE]]
    /\ UNCHANGED results

\* except Exception: return index, ""
SoftFailure(t, i, n) ==
    /\ fut' = [fut EXCEPT ![t][i] =
                  [st |-> "done", attempts |-> n, content |-> <<>>, soft |-> TRUE]]
    /\ results' = [results EXCEPT ![t] = Append(@, <<i, <<>> >>)]

\* return index, content
FetchReturns(t, i, n, content) ==
    /\ fut' = [fut EXCEPT ![t][i] =
                  [st |-> "done", attempts |-> n, content |-> content,
                   soft |-> FALSE]]
    /\ results' = [results EXCEPT ![t] = Append(@, <<i, content>>)]

\* except Timeout / RequestException: raise. The decorator calls again, or
\* after the last attempt raises RetryError out of the future.
FetchRaises(t, i, n) ==
    /\ fut' = [fut EXCEPT ![t][i].attempts = n,
                          ![t][i].st = IF RetryStops(n) THEN "raised" ELSE "running"]
    /\ UNCHANGED results

\* One attempt of _download_and_process_source(source, i) and, when it
\* returns, results[index] = content of the as_completed loop.
FetchAttempt(t, i) ==
    /\ PoolAlive
    /\ taskPc[t] = "fetching"
    /\ fut[t][i].st = "running"
    /\ UNCHANGED <<calc, cfg, files, runVars, taskPc, taskErr, taskResult, toolExit,
                   body>>
    /\ LET n == fut[t][i].attempts + 1
       IN  \E fails \in 0 .. MaxSrvFails, status \in {200, 404},
              raw \in RawBodies(t, i), procError \in BOOLEAN :
               IF AdapterGivesUp(fails) \/ status # 200
               THEN FetchRaises(t, i, n)
               ELSE IF procError
               THEN SoftFailure(t, i, n)
               ELSE FetchReturns(t, i, n, ProcessSource(SourceProcessors(t, i), raw))

(***************************************************************************)
(* process_task                                                            *)
(***************************************************************************)

\* ThreadPoolExecutor(max_workers=max_concurrent_tasks) of run(): a worker
\* takes the submitted tasks in order and enters process_task, which submits
\* every source of the task.
StartTask(t) ==
    /\ PoolAlive
    /\ taskPc[t] = "pending"
    /\ \A k \in DOMAIN TaskNames :
           TaskNames[k] = t =>
               \A j \in 1 .. (k - 1) : taskPc[TaskNames[j]] # "pending"
    /\ WorkerFree(RunningTasks, cfg.max_concurrent_tasks)
    /\ taskPc' = [taskPc EXCEPT ![t] = "fetching"]
    /\ UNCHANGED <<calc, cfg, files, runVars, taskErr, taskResult, toolExit, fut,
                   results, body>>

ResultKeys(res) == {res[k][1] : k \in DOMAIN res}

\* results[i]
ResultOf(res, i) == res[CHOOSE k \in DOMAIN res : res[k][1] = i][2]

RECURSIVE SortedInts(_)
SortedInts(S) ==
    IF S = {} THEN <<>>
    ELSE LET m == CHOOSE x \in S : \A y \in S : x <= y
         IN  <<m>> \o SortedInts(S \ {m})

\* Variant: the keys in insertion order, for i in results
ArrivalOrder(res) == [k \in DOMAIN res |-> res[k][1]]

\* for i in sorted(results.keys())
MergeOrder(res) == SortedInts(ResultKeys(res))

\* "".join(results[i] for i in sorted(results.keys()) if results[i].strip())
CombinedContent(res) ==
    LET kept == SelectSeq(MergeOrder(res),
                          LAMBDA i : Strip(ResultOf(res, i)) # <<>>)
    IN  Concat([k \in DOMAIN kept |-> ResultOf(res, kept[k])])

\* Variant: the non-blank lines as they come
UniqueLinesKeepDup(lines) == SelectSeq(lines, NonBlank)

\* sorted(set(line for line in lines if line.strip()))
UniqueLines(lines) == SortedStr(SeqToSet(SelectSeq(lines, NonBlank)))

\* Variant: every format is treated as one without a header
FinalContentNoHeader(content, format) == JoinLines(UniqueLines(SplitLines(content)))

\* _write_processed_content: final_content, for content that is not blank
FinalContent(content, format) ==
    LET lines == SplitLines(content)
    IN  IF format = "yaml"
        THEN Head(lines) \o <<NL>> \o JoinLines(UniqueLines(Tail(lines)))
        ELSE JoinLines(UniqueLines(lines))

\* Variant: the content is not examined before it is split
ContentNeverEmpty(content) == FALSE

\* if not content.strip(): raise ValueError
ContentIsEmpty(content) == Strip(content) = <<>>

\* if format_type == "yaml": if not lines: raise ValueError
YamlIsEmpty(content, format) == format = "yaml" /\ SplitLines(content) = <<>>

\* _write_processed_content raises ValueError
MergeIsEmpty(content, format) ==
    ContentIsEmpty(content) \/ YamlIsEmpty(content, format)

\* The with-block of process_task is left when every future has finished.
JoinReady(t) ==
    /\ PoolAlive
    /\ taskPc[t] = "fetching"
    /\ \A i \in SourceIdx(t) : fut[t][i].st \in {"done", "raised"}

\* The end of the as_completed loop and of the with-block (every future has
\* finished), combined_content, and _write_processed_content up to
\* final_content. future.result() re-raises what a fetch raised, and nothing
\* in process_task catches it or the ValueError of an empty content.
JoinSources(t) ==
    /\ JoinReady(t)
    /\ UNCHANGED <<calc, cfg, files, runVars, taskResult, toolExit, fut, results>>
    /\ IF \E i \in SourceIdx(t) : fut[t][i].st = "raised"
       THEN /\ taskPc' = [taskPc EXCEPT ![t] = "raised"]
            /\ taskErr' = [taskErr EXCEPT ![t] = "RetryError"]
            /\ UNCHANGED body
       ELSE IF MergeIsEmpty(CombinedContent(results[t]), TaskFormat[t])
       THEN /\ taskPc' = [taskPc EXCEPT ![t] = "raised"]
            /\ taskErr' = [taskErr EXCEPT ![t] = "ValueError"]
            /\ UNCHANGED body
       ELSE /\ taskPc' = [taskPc EXCEPT ![t] = "write"]
            /\ body' = [body EXCEPT ![t] =
                           FinalContent(CombinedContent(results[t]), TaskFormat[t])]
            /\ UNCHANGED taskErr

(***************************************************************************)
(* _write_processed_content: the write                                     *)
(***************************************************************************)

Min(a, b) == IF a < b THEN a ELSE b

\* What an unfinished write_text(final_content) may have put on disk
PartialData(d) == {SubSeq(d, 1, k) : k \in 0 .. Min(MaxPartial, Len(d) - 1)}

\* if temp_file.exists(): temp_file.unlink()
Unlinked(fs, p) == [fs EXCEPT ![p] = NoFile]

\* temp_file.write_text(final_content) has opened the file and written a part.
\* The futures and results of the task are not read again.
WriteBegin(t) ==
    /\ PoolAlive
    /\ taskPc[t] = "write"
    /\ \E d \in PartialData(body[t]) :
           files' = [files EXCEPT ![TempFilePath(t)] = FileOf(d)]
    /\ taskPc' = [taskPc EXCEPT ![t] = "writing"]
    /\ fut' = [fut EXCEPT ![t] = [i \in SourceIdx(t) |-> ReleasedFuture]]
    /\ results' = [results EXCEPT ![t] = <<>>]
    /\ UNCHANGED <<calc, cfg, runVars, taskErr, taskResult, toolExit, body>>

\* temp_file.write_text(final_content) returns
WriteEnd(t) ==
    /\ PoolAlive
    /\ taskPc[t] = "writing"
    /\ files' = [files EXCEPT ![TempFilePath(t)] = FileOf(body[t])]
    /\ taskPc' = [taskPc EXCEPT ![t] = "replace"]
    /\ UNCHANGED <<calc, cfg, runVars, taskErr, taskResult, toolExit, fetchVars, body>>

\* except Exception: the temporary file is unlinked and the error re-raised
WriteError(t) ==
    /\ files' = Unlinked(files, TempFilePath(t))
    /\ taskPc' = [taskPc EXCEPT ![t] = "raised"]
    /\ taskErr' = [taskErr EXCEPT ![t] = "OSError"]
    /\ UNCHANGED <<calc, cfg, runVars, taskResult, toolExit, fetchVars, body>>

\* temp_file.write_text(final_content) raises
WriteFails(t) ==
    /\ PoolAlive
    /\ taskPc[t] = "writing"
    /\ WriteError(t)

\* temp_file.replace(temp_path): an atomic rename, or it raises
Replace(t) ==
    /\ PoolAlive
    /\ taskPc[t] = "replace"
    /\ \/ /\ files' = [files EXCEPT ![TempFilePath(t)] = NoFile,
                                    ![StagePath(t)] = files[TempFilePath(t)]]
          /\ taskPc' = [taskPc EXCEPT ![t] = "convert"]
          /\ UNCHANGED <<calc, cfg, runVars, taskErr, taskResult, toolExit, fetchVars,
                         body>>
       \/ WriteError(t)

\* The process is killed while a task is in _write_processed_content.
Crash ==
    /\ PoolAlive
    /\ \E t \in Tasks : taskPc[t] \in WritePcs
    /\ runPc' = "killed"
    /\ exitStatus' = <<-9>>
    /\ UNCHANGED <<calc, cfg, files, collected, all_generated_files, validatedOk,
                   published, taskPc, taskErr, taskResult, toolExit, fut,
                   results, body>>

(***************************************************************************)
(* _convert_to_mrs                                                         *)
(***************************************************************************)

\* Exit codes of the conversion tool, and what it left at the output path
ToolExitCodes == {0, 1}

ToolOutputs == {"none", "empty", "data"}

AfterTool(fs, t, out) ==
    CASE out = "none"  -> fs
      [] out = "empty" -> [fs EXCEPT ![TempMrsPath(t)] = FileOf(<<>>)]
      [] out = "data"  -> [fs EXCEPT ![TempMrsPath(t)] = FileOf(MrsData)]

\* Variant: subprocess.run without check=True
ToolNeverFails(code) == FALSE

\* subprocess.run(cmd, check=True, ...) raises CalledProcessError
ToolFailed(code) == code # 0

\* Variant: the size of the converted file is not looked at
MrsExists(f) == f.exists

\* not (not temp_mrs_path.exists() or temp_mrs_path.stat().st_size == 0)
MrsProduced(f) == f.exists /\ Size(f) # 0

\* Variant: the executable is not looked for
ToolNeverMissing(fs) == FALSE

\* not mihomo_executable.exists()
ToolMissing(fs) == ~fs[ToolPath].exists

\* return False, after the error is logged
ConvertFails(t, why) ==
    /\ taskPc' = [taskPc EXCEPT ![t] = "failed"]
    /\ taskErr' = [taskErr EXCEPT ![t] = why]

\* _convert_to_mrs up to the check of the converted file
Convert(t) ==
    /\ PoolAlive
    /\ taskPc[t] = "convert"
    /\ UNCHANGED <<calc, cfg, runVars, taskResult, fetchVars, body>>
    /\ IF ToolMissing(files)
       THEN /\ ConvertFails(t, "no_tool")
            /\ UNCHANGED <<files, toolExit>>
       ELSE \E code \in ToolExitCodes, out \in ToolOutputs :
               /\ files' = AfterTool(files, t, out)
               /\ toolExit' = [toolExit EXCEPT ![t] = <<code>>]
               /\ IF ToolFailed(code)
                  THEN ConvertFails(t, "tool_exit")
                  ELSE IF ~MrsProduced(files'[TempMrsPath(t)])
                  THEN ConvertFails(t, "no_mrs")
                  ELSE /\ taskPc' = [taskPc EXCEPT ![t] = "move_source"]
                       /\ UNCHANGED taskErr

\* shutil.move(src, dst)
Moved(fs, src, dst) == [fs EXCEPT ![src] = NoFile, ![dst] = fs[src]]

\* shutil.move raises: the rename did nothing, or the copy it falls back to
\* stopped part-way.
MoveFailed(fs, src, dst) ==
    {fs} \cup {[fs EXCEPT ![dst] = FileOf(d)] : d \in PartialData(fs[src].data)}

\* shutil.move(str(temp_path), str(final_source_path))
MoveSource(t) ==
    /\ PoolAlive
    /\ taskPc[t] = "move_source"
    /\ UNCHANGED <<calc, cfg, runVars, taskResult, toolExit, fetchVars, body>>
    /\ \/ /\ files' = Moved(files, StagePath(t), FinalSourcePath(t))
          /\ taskPc' = [taskPc EXCEPT ![t] = "move_mrs"]
          /\ UNCHANGED taskErr
       \/ /\ files' \in MoveFailed(files, StagePath(t), FinalSourcePath(t))
          /\ ConvertFails(t, "move")

\* return [final_source_path, final_mrs_path]
TaskArtifacts(t) == <<FinalSourcePath(t), FinalMrsPath(t)>>

\* shutil.move(str(temp_mrs_path), str(final_mrs_path)); return True, and
\* process_task returns the two final paths.
MoveMrs(t) ==
    /\ PoolAlive
    /\ taskPc[t] = "move_mrs"
    /\ UNCHANGED <<calc, cfg, runVars, toolExit, fetchVars, body>>
    /\ \/ /\ files' = Moved(files, TempMrsPath(t), FinalMrsPath(t))
          /\ taskPc' = [taskPc EXCEPT ![t] = "done"]
          /\ taskResult' = [taskResult EXCEPT ![t] = TaskArtifacts(t)]
          /\ UNCHANGED taskErr
       \/ /\ files' \in MoveFailed(files, TempMrsPath(t), FinalMrsPath(t))
          /\ ConvertFails(t, "move")
          /\ UNCHANGED taskResult

(***************************************************************************)
(* run                                                                     *)
(***************************************************************************)

\* for future in as_completed(futures): future.result() returns the paths or
\* None, or re-raises what process_task raised; run() catches nothing, so
\* the exception leaves the loop and the with-block waits for the workers.
CollectTask(t) ==
    /\ runPc = "tasks"
    /\ t \notin collected
    /\ taskPc[t] \in TaskTerminal
    /\ UNCHANGED <<calc, cfg, files, exitStatus, validatedOk, published, taskPc,
                   taskErr, taskResult, toolExit, fut, results, body>>
    /\ IF taskPc[t] = "raised"
       THEN /\ runPc' = "aborting"
            /\ UNCHANGED <<collected, all_generated_files>>
       ELSE /\ collected' = collected \cup {t}
            /\ all_generated_files' = all_generated_files \o taskResult[t]
            /\ UNCHANGED runPc

\* The with-block of run() is left with the exception of a task: the
\* interpreter prints the traceback and exits with status 1.
AbortRun ==
    /\ runPc = "aborting"
    /\ \A t \in Tasks : taskPc[t] \in TaskTerminal
    /\ runPc' = "aborted"
    /\ exitStatus' = <<1>>
    /\ UNCHANGED <<calc, cfg, files, collected, all_generated_files, validatedOk,
                   published, taskPc, taskErr, taskResult, toolExit, fut,
                   results, body>>

\* file_path.exists() and file_path.stat().st_size > 0
FileOk(fs, p) == fs[p].exists /\ Size(fs[p]) > 0

\* Variant: one valid file is enough
FilesValidAny(fs, paths) ==
    \E k \in DOMAIN paths : fs[paths[k]].exists /\ Len(fs[paths[k]].data) > 0

\* _validate_generated_files
FilesValid(fs, paths) ==
    /\ paths # <<>>
    /\ \A k \in DOMAIN paths : FileOk(fs, paths[k])

\* The end of run(): the file check, then commit_changes() or sys.exit(1)
Validate ==
    /\ runPc = "tasks"
    /\ collected = Tasks
    /\ validatedOk' = {p \in SeqToSet(all_generated_files) : FileOk(files, p)}
    /\ IF FilesValid(files, all_generated_files)
       THEN /\ published' = TRUE
            /\ runPc' = "finished"
            /\ exitStatus' = <<0>>
       ELSE /\ published' = FALSE
            /\ runPc' = "check_failed"
            /\ exitStatus' = <<1>>
    /\ UNCHANGED <<calc, cfg, files, collected, all_generated_files, taskPc, taskErr,
                   taskResult, toolExit, fut, results, body>>

(***************************************************************************)
(* Specification                                                           *)
(***************************************************************************)

Next ==
    \/ InitEnv
    \/ \E t \in Tasks : StartTask(t)
    \/ \E t \in Tasks : \E i \in SourceIdx(t) : StartFetch(t, i)
    \/ \E t \in Tasks : \E i \in SourceIdx(t) : FetchAttempt(t, i)
    \/ \E t \in Tasks : JoinSources(t)
    \/ \E t \in Tasks : WriteBegin(t)
    \/ \E t \in Tasks : WriteEnd(t)
    \/ \E t \in Tasks : WriteFails(t)
    \/ \E t \in Tasks : Replace(t)
    \/ \E t \in Tasks : Convert(t)
    \/ \E t \in Tasks : MoveSource(t)
    \/ \E t \in Tasks : MoveMrs(t)
    \/ \E t \in Tasks : CollectTask(t)
    \/ AbortRun
    \/ Validate
    \/ Crash

Spec == Init /\ [][Next]_vars

\* What JoinSources(t) does to taskPc: process_task(t) leaves its with-block,
\* for the write or with an exception. It is possible exactly when
\* JoinSources(t) is, and the steps of the run that do it are the steps
\* JoinSources(t).
JoinLeaves(t) ==
    /\ JoinReady(t)
    /\ \E pc \in {"write", "raised"} : taskPc' = [taskPc EXCEPT ![t] = pc]

\* A step of the worker threads that process task t, other than JoinSources(t)
TaskStep(t) ==
    \/ StartTask(t)
    \/ \E i \in SourceIdx(t) : StartFetch(t, i) \/ FetchAttempt(t, i)
    \/ WriteBegin(t) \/ WriteEnd(t) \/ WriteFails(t) \/ Replace(t)
    \/ Convert(t) \/ MoveSource(t) \/ MoveMrs(t)

\* A step of the main thread
RunStep ==
    \/ InitEnv
    \/ \E t \in Tasks : CollectTask(t)
    \/ AbortRun
    \/ Validate

\* The main thread and the worker threads keep running as long as the
\* process lives: the main thread takes a step that stays possible, and so
\* do the workers on each task. Nothing is assumed about Crash.
SpecFair ==
    /\ Spec
    /\ WF_vars(RunStep)
    /\ \A t \in Tasks : WF_vars(TaskStep(t)) /\ WF_taskPc(JoinLeaves(t))

(***************************************************************************)
(* The run with external interference: while run() works, something else   *)
(* removes the conversion tool, or removes or empties an artifact that     *)
(* run() has aggregated and not yet checked.                               *)
(***************************************************************************)

Interferable == {ToolPath} \cup SeqToSet(all_generated_files)

ExternalRemove(p) ==
    /\ runPc = "tasks"
    /\ p \in Interferable
    /\ files[p].exists
    /\ files' = [files EXCEPT ![p] = NoFile]
    /\ UNCHANGED <<calc, cfg, runVars, taskPc, taskErr, taskResult, toolExit, fut,
                   results, body>>

ExternalEmpty(p) ==
    /\ runPc = "tasks"
    /\ p \in SeqToSet(all_generated_files)
    /\ Size(files[p]) > 0
    /\ files' = [files EXCEPT ![p] = FileOf(<<>>)]
    /\ UNCHANGED <<calc, cfg, runVars, taskPc, taskErr, taskResult, toolExit, fut,
                   results, body>>

NextEnv ==
    \/ Next
    \/ \E p \in Paths : ExternalRemove(p)
    \/ \E p \in Paths : ExternalEmpty(p)

SpecEnv == Init /\ [][NextEnv]_vars

(***************************************************************************)
(* The functions of the pipeline on their own: a text processor, the       *)
(* processing of one source, the merge of the sources of a task and the    *)
(* paths of two tasks, each evaluated on inputs drawn from bounded sets.   *)
(***************************************************************************)

\* Longest response text a processor is evaluated on
MaxTextLen == 3

\* Most processors a source declares
MaxChainLen == 2

\* Most lines of the response text of a source that is merged
MaxLines == 2

\* The sequences over A of at most n elements
RECURSIVE SeqsUpTo(_, _)
SeqsUpTo(A, n) ==
    IF n = 0 THEN {<<>>}
    ELSE LET S == SeqsUpTo(A, n - 1)
         IN  S \cup {Append(s, c) : s \in S, c \in A}

\* text: a rule, a comment sign, blanks and line ends
Alphabet == {"a", "b", "#", " ", NL}

Texts == SeqsUpTo(Alphabet, MaxTextLen)

\* SourceConfig.processors: the keys of self.processors and a name that is
\* not among them
ProcessorNames ==
    {"remove_comments_and_empty", "format_pihole", "format_yaml_list",
     "strip_spaces"}

\* SourceConfig.processors: None or [] (both <<>>), or a list of names
Chains == SeqsUpTo(ProcessorNames, MaxChainLen)

\* The lines of the response text of a source that is merged
SourceLines == {<<"a">>, <<"b">>, <<" ">>}

\* response.text of a source that is merged, with or without a final newline
SourceTexts ==
    {JoinLines(ls) \o end :
        ls \in SeqsUpTo(SourceLines, MaxLines), end \in {<<>>, <<NL>>}}

\* A yaml task of two sources: the first answers with the header line
\* payload: and a list entry, the second with the same entry.
PayloadSources ==
    << [procs |-> <<>>,
        raw |-> <<"p", "a", "y", "l", "o", "a", "d", ":", NL,
                  " ", " ", "-", " ", "'", "x", "'", NL>>],
       [procs |-> <<>>,
        raw |-> <<" ", " ", "-", " ", "'", "x", "'", NL>>] >>

\* The sources of a task that is merged: each with the default processors or
\* with a processor that leaves the text as it is
MergedSources ==
    {PayloadSources}
    \cup [1 .. 2 -> [procs : {<<>>, <<"strip_spaces">>}, raw : SourceTexts]]

\* TaskConfig.format
Formats == {"yaml", "text"}

\* config['tasks']: the names of two tasks and their formats, by their parts
NameChoices == {<<"x">>, <<"y">>, <<"x", "yaml">>}

FormatChoices == {<<"yaml">>, <<"text">>, <<"tmp">>}

TaskPairs ==
    {p \in [1 .. 2 -> [name : NameChoices, format : FormatChoices]] :
        p[1].name # p[2].name}

\* The files process_task(name) writes, replaces or moves
TaskWrites(name, format) ==
    {StagePathOf(name, format), TempFilePathOf(name, format),
     TempMrsPathOf(name), FinalSourcePathOf(name, format),
     FinalMrsPathOf(name)}

\* The state of the pipeline while a function is evaluated on its own
Idle ==
    /\ cfg = [max_concurrent_downloads |-> 10, max_concurrent_tasks |-> 3,
              max_retries |-> 3]
    /\ files = InitialFiles(TRUE, TRUE)
    /\ runPc = "init_env"
    /\ exitStatus = <<>>
    /\ collected = {}
    /\ all_generated_files = <<>>
    /\ validatedOk = {}
    /\ published = FALSE
    /\ taskPc = [t \in Tasks |-> "pending"]
    /\ taskErr = [t \in Tasks |-> "none"]
    /\ taskResult = [t \in Tasks |-> <<>>]
    /\ toolExit = [t \in Tasks |-> <<>>]
    /\ fut = [t \in Tasks |-> [i \in SourceIdx(t) |-> NewFuture]]
    /\ results = [t \in Tasks |-> <<>>]
    /\ body = [t \in Tasks |-> <<>>]

pipelineVars ==
    <<cfg, files, runPc, exitStatus, collected, all_generated_files,
      validatedOk, published, taskPc, taskErr, taskResult, toolExit, fut,
      results, body>>

InitPure ==
    /\ Idle
    /\ \/ \E text \in Texts :
              calc = [op |-> "transform", text |-> text, applied |-> 0,
                      once |-> <<>>, twice |-> <<>>]
       \/ \E procs \in Chains, raw \in Texts :
              calc = [op |-> "source", procs |-> procs, raw |-> raw,
                      returned |-> FALSE, content |-> <<>>]
       \/ \E format \in Formats, sources \in MergedSources :
              calc = [op |-> "merge", format |-> format, sources |-> sources,
                      results |-> <<>>, status |-> "fetching", body |-> <<>>]
       \/ \E tasks \in TaskPairs :
              calc = [op |-> "paths", tasks |-> tasks, written |-> <<>>]

\* TextProcessor.remove_comments_and_empty(text), and once more on its result
EvalRemoveComments ==
    /\ calc.op = "transform"
    /\ calc.applied < 2
    /\ calc' = IF calc.applied = 0
               THEN [calc EXCEPT !.applied = 1,
                                 !.once = remove_comments_and_empty(calc.text)]
               ELSE [calc EXCEPT !.applied = 2,
                                 !.twice = remove_comments_and_empty(calc.once)]
    /\ UNCHANGED pipelineVars

\* _download_and_process_source from the response on: the processors of the
\* source are applied to response.text and the content is returned
EvalProcessSource ==
    /\ calc.op = "source"
    /\ ~calc.returned
    /\ calc' = [calc EXCEPT !.returned = TRUE,
                            !.content = ProcessSource(calc.procs, calc.raw)]
    /\ UNCHANGED pipelineVars

\* The as_completed loop of process_task: the fetch of source i completes,
\* results[index] = content
EvalFetch(i) ==
    /\ calc.op = "merge"
    /\ calc.status = "fetching"
    /\ i \notin ResultKeys(calc.results)
    /\ calc' = [calc EXCEPT !.results =
                   Append(@, <<i, ProcessSource(calc.sources[i + 1].procs,
                                                calc.sources[i + 1].raw)>>)]
    /\ UNCHANGED pipelineVars

\* combined_content and _write_processed_content up to final_content
EvalMerge ==
    /\ calc.op = "merge"
    /\ calc.status = "fetching"
    /\ ResultKeys(calc.results) = 0 .. (Len(calc.sources) - 1)
    /\ LET content == CombinedContent(calc.results)
       IN  calc' = IF MergeIsEmpty(content, calc.format)
                   THEN [calc EXCEPT !.status = "ValueError"]
                   ELSE [calc EXCEPT !.status = "merged",
                                     !.body = FinalContent(content, calc.format)]
    /\ UNCHANGED pipelineVars

\* process_task, _write_processed_content and _convert_to_mrs: the paths of
\* each of the two tasks
EvalTaskPaths ==
    /\ calc.op = "paths"
    /\ calc.written = <<>>
    /\ calc' = [calc EXCEPT !.written =
                   [k \in 1 .. 2 |->
                       TaskWrites(calc.tasks[k].name, calc.tasks[k].format)]]
    /\ UNCHANGED pipelineVars

NextPure ==
    \/ EvalRemoveComments
    \/ EvalProcessSource
    \/ \E i \in 0 .. 1 : EvalFetch(i)
    \/ EvalMerge
    \/ EvalTaskPaths

SpecPure == InitPure /\ [][NextPure]_vars

(***************************************************************************)
(* Properties                                                              *)
(***************************************************************************)

\* run() has ended, other than by init_env's exit or a kill
RunEnded == {"finished", "check_failed", "aborted"}

\* Neither final path of t holds anything this run moved there.
Unpublished(t) ==
    /\ files[FinalSourcePath(t)] \in {NoFile, FileOf(OldData)}
    /\ files[FinalMrsPath(t)] \in {NoFile, FileOf(OldData)}

Blank(content) == Strip(content) = <<>>

\* C1: task-level fault isolation. A task that fails for whatever reason
\* yields no artifacts, the run is never aborted by it, and when the run has
\* ended every task is terminal, the artifacts of every task that is done
\* are aggregated and the validation step was reached.
C1_TaskFaultIsolation ==
    /\ \A t \in Tasks : taskPc[t] \in {"failed", "raised"} => taskResult[t] = <<>>
    /\ runPc \notin {"aborting", "aborted"}
    /\ runPc \in RunEnded =>
           \A t \in Tasks :
               /\ taskPc[t] \in TaskTerminal
               /\ taskPc[t] = "done" =>
                      SeqToSet(TaskArtifacts(t)) \subseteq SeqToSet(all_generated_files)

\* C2: source-level fault isolation. When every future of a task has
\* finished, one of them with the fetch error of its last attempt and
\* another with content that is not blank, the task does not fail: it merges
\* the remaining sources.
C2_SourceFaultIsolation ==
    \A t \in Tasks :
        ( /\ \E i \in SourceIdx(t) : fut[t][i].st = "raised"
          /\ \E i \in SourceIdx(t) :
                 fut[t][i].st = "done" /\ ~Blank(fut[t][i].content) )
        => taskPc[t] # "raised"

\* C3 as stated: when run() has ended, the publish step was invoked if and
\* only if at least one aggregated artifact passed the check, and a run that
\* did not publish ended with a non-zero status.
C3_PublishIfSomeArtifactValid ==
    runPc \in RunEnded =>
        /\ published <=> validatedOk # {}
        /\ ~published => exitStatus # <<0>>

\* C3 as amended: the publish step is invoked if and only if run() reached
\* the check with a non-empty list of artifacts every one of which passed;
\* in every other case the run ends with status 1 and publishes nothing.
C3_PublishIffAllArtifactsValid ==
    /\ published <=> runPc = "finished"
    /\ runPc \in {"finished", "check_failed"} =>
           ( published <=>
                 /\ all_generated_files # <<>>
                 /\ validatedOk = SeqToSet(all_generated_files) )
    /\ runPc \in {"check_failed", "aborted", "env_exit"} =>
           ~published /\ exitStatus = <<1>>
    /\ runPc = "finished" => exitStatus = <<0>>

\* An artifact passed the check, another did not, and nothing was published.
C3_Witness ==
    /\ runPc = "check_failed"
    /\ validatedOk # {}
    /\ validatedOk # SeqToSet(all_generated_files)

\* The contents of the sources of t in ascending index, blank ones left out
RECURSIVE ContentsFrom(_, _)
ContentsFrom(t, i) ==
    IF i \notin SourceIdx(t) THEN <<>>
    ELSE (IF Blank(fut[t][i].content) THEN <<>> ELSE fut[t][i].content)
         \o ContentsFrom(t, i + 1)

\* C4: merge determinism. The body process_task stages is the one of the
\* sources' contents concatenated in ascending index, whatever the order the
\* fetches completed in, and the staged file holds exactly that body.
C4_MergeDeterminism ==
    \A t \in Tasks :
        /\ taskPc[t] = "write" =>
               body[t] = FinalContent(ContentsFrom(t, 0), TaskFormat[t])
        /\ taskPc[t] = "convert" => files[StagePath(t)] = FileOf(body[t])

\* Both sources of task a returned content, the second one first.
C4_Witness ==
    /\ taskPc["a"] = "write"
    /\ Len(results["a"]) = 2
    /\ results["a"][1][1] = 1
    /\ \A i \in SourceIdx("a") : ~Blank(fut["a"][i].content)

\* C5: atomic staging. The staging path is absent, holds what the earlier
\* run left there or holds the complete new body, also after a kill or an
\* error in _write_processed_content; when the write or the rename failed
\* the temporary file is gone and the error left process_task.
C5_AtomicStaging ==
    \A t \in Tasks :
        /\ \/ files[StagePath(t)] \in {NoFile, FileOf(OldData)}
           \/ body[t] # <<>> /\ files[StagePath(t)] = FileOf(body[t])
        /\ taskErr[t] = "OSError" =>
               ~files[TempFilePath(t)].exists /\ taskPc[t] = "raised"

\* The process was killed in the middle of a write over an earlier staged
\* file, and in the same run the write of the other task failed.
C5_Witness ==
    /\ runPc = "killed"
    /\ \E t \in Tasks :
           /\ taskPc[t] = "writing"
           /\ files[TempFilePath(t)].exists
           /\ files[TempFilePath(t)].data # body[t]
           /\ files[StagePath(t)] = FileOf(OldData)
    /\ \E t \in Tasks : taskErr[t] = "OSError"

\* C6: a conversion that exits with a non-zero code fails the task: it is
\* Failed with no artifacts, nothing was moved to its final paths, and when
\* the run has ended the other tasks have run to their end.
C6_ConversionExitCode ==
    \A t \in Tasks :
        (toolExit[t] # <<>> /\ toolExit[t] # <<0>>) =>
            /\ taskPc[t] = "failed"
            /\ taskResult[t] = <<>>
            /\ Unpublished(t)
            /\ runPc \in RunEnded => \A u \in Tasks : taskPc[u] \in TaskTerminal

\* The tool exited with 1 for one task, another task is done, and the run
\* published.
C6_Witness ==
    /\ runPc = "finished"
    /\ \E t \in Tasks : toolExit[t] = <<1>>
    /\ \E t \in Tasks : taskPc[t] = "done"

\* C7: conversion pre- and post-condition. A task that comes to the
\* conversion with the tool absent fails without the subprocess being run;
\* a conversion that exits with 0 and leaves the temporary binary missing or
\* empty fails too. In both cases the step moves nothing to the final paths
\* and the task returns no artifacts.
C7_ConversionConditions ==
    [][ \A t \in Tasks :
          ( /\ taskPc[t] = "convert"
            /\ taskPc'[t] # "convert"
            /\ \/ ~files[ToolPath].exists
               \/ /\ toolExit'[t] = <<0>>
                  /\ \/ ~files'[TempMrsPath(t)].exists
                     \/ Size(files'[TempMrsPath(t)]) = 0 )
          => /\ taskPc'[t] = "failed"
             /\ taskResult'[t] = <<>>
             /\ ~files[ToolPath].exists => toolExit'[t] = <<>>
             /\ files'[FinalSourcePath(t)] = files[FinalSourcePath(t)]
             /\ files'[FinalMrsPath(t)] = files[FinalMrsPath(t)] ]_vars

\* One task failed for want of the tool and the other for an empty binary
\* after exit code 0.
C7_Witness ==
    /\ \E t \in Tasks : taskErr[t] = "no_tool" /\ toolExit[t] = <<>>
    /\ \E t \in Tasks :
           /\ taskErr[t] = "no_mrs"
           /\ toolExit[t] = <<0>>
           /\ files[TempMrsPath(t)] = FileOf(<<>>)

\* C8: artifact invariant. A task returns a result only as Done, the result
\* is the two final paths of the task, and both files exist and are not
\* empty.
C8_ArtifactInvariant ==
    \A t \in Tasks :
        /\ taskResult[t] # <<>> => taskPc[t] = "done"
        /\ taskPc[t] = "done" =>
               /\ taskResult[t] = <<FinalSourcePath(t), FinalMrsPath(t)>>
               /\ \A k \in DOMAIN taskResult[t] :
                      /\ files[taskResult[t][k]].exists
                      /\ Size(files[taskResult[t][k]]) > 0
               /\ files[FinalSourcePath(t)] = FileOf(body[t])

\* Both tasks are done.
C8_Witness == \A t \in Tasks : taskPc[t] = "done"

\* C9: bounded retry. The number of attempts of a fetch never exceeds the
\* configured bound max_retries, and a fetch raises only when the last
\* allowed attempt failed.
C9_BoundedRetry ==
    \A t \in Tasks : \A i \in SourceIdx(t) :
        /\ fut[t][i].attempts <= cfg.max_retries
        /\ fut[t][i].st = "raised" => fut[t][i].attempts = cfg.max_retries

\* C10: soft failure. A source whose processing raised has returned the
\* empty content, without a retry and without raising; a task fails at the
\* fetch only through a source that raised, and the task merges the other
\* sources: the body is that of the contents of the sources that had no
\* processing error.
C10_SoftFailure ==
    \A t \in Tasks :
        /\ \A i \in SourceIdx(t) :
               fut[t][i].soft =>
                   /\ fut[t][i].st = "done"
                   /\ fut[t][i].content = <<>>
                   /\ \E k \in DOMAIN results[t] : results[t][k] = <<i, <<>> >>
        /\ taskErr[t] = "RetryError" =>
               \E i \in SourceIdx(t) : fut[t][i].st = "raised" /\ ~fut[t][i].soft
        /\ (taskPc[t] = "write" /\ \E i \in SourceIdx(t) : fut[t][i].soft) =>
               LET rest == SelectSeq(results[t], LAMBDA r : ~fut[t][r[1]].soft)
               IN  body[t] = FinalContent(CombinedContent(rest), TaskFormat[t])

\* The first source of task a failed softly on its second attempt and the
\* task stages the content of its second source.
C10_Witness ==
    /\ fut["a"][0].soft
    /\ fut["a"][0].attempts = 2
    /\ taskPc["a"] = "write"
    /\ ~Blank(fut["a"][1].content)

(***************************************************************************)
(* Properties of the functions evaluated on their own                      *)
(***************************************************************************)

\* A merge has produced a body
Merged == calc.op = "merge" /\ calc.status = "merged"

\* The contents of the sources of the merge, in the order of the sources
FetchedContents ==
    [k \in 1 .. Len(calc.sources) |-> ResultOf(calc.results, k - 1)]

\* The concatenation of the contents that are not blank
ConcatenatedInput ==
    Concat(SelectSeq(FetchedContents, LAMBDA c : Strip(c) # <<>>))

DistinctNonBlank(lines) == {l \in SeqToSet(lines) : Strip(l) # <<>>}

OccursOnce(lines, l) == Cardinality({k \in DOMAIN lines : lines[k] = l}) = 1

Ascending(lines) ==
    \A k \in 1 .. (Len(lines) - 1) : StrLess(lines[k], lines[k + 1])

\* C11 as stated: for every format, the lines of the staged body are the
\* distinct non-blank lines of the concatenated contents, each line occurs
\* once in the body, and the deduplicated lines (for yaml those after the
\* header) are in ascending order.
C11_DedupCorrectness ==
    Merged =>
        LET lines == SplitLines(calc.body)
        IN  /\ SeqToSet(lines) =
                   DistinctNonBlank(SplitLines(Concat(FetchedContents)))
            /\ \A l \in SeqToSet(lines) : OccursOnce(lines, l)
            /\ Ascending(IF calc.format = "yaml" THEN Tail(lines) ELSE lines)

\* C11 amended: the deduplicated part of the body (for yaml the lines below
\* the first, otherwise all lines) holds the distinct non-blank lines of the
\* matching part of the concatenated input, each once, in ascending order;
\* for yaml the first line of the body is the first line of the input as it
\* is, whether it is blank or occurs again below.
C11_DedupBelowHeader ==
    Merged =>
        LET input == SplitLines(ConcatenatedInput)
            lines == SplitLines(calc.body)
            yaml  == calc.format = "yaml"
            rest  == IF yaml THEN Tail(input) ELSE input
            below == IF yaml THEN Tail(lines) ELSE lines
        IN  /\ SeqToSet(below) = DistinctNonBlank(rest)
            /\ \A l \in SeqToSet(below) : OccursOnce(below, l)
            /\ Ascending(below)
            /\ yaml => Head(lines) = Head(input)

\* A yaml body of three lines whose header occurs again below it
C11_Witness ==
    /\ Merged
    /\ calc.format = "yaml"
    /\ LET lines == SplitLines(calc.body)
       IN  Len(lines) >= 3 /\ Head(lines) \in SeqToSet(Tail(lines))
\* payload:\n  - 'x'
PayloadBody ==
    <<"p", "a", "y", "l", "o", "a", "d", ":", NL, " ", " ", "-", " ", "'", "x", "'">>

\* C12: for yaml the first line of the staged body is the first line of the
\* concatenation of the non-blank contents, and the body is that header, a
\* newline and the sorted distinct non-blank remaining lines; the task with
\* the header payload: whose two sources both carry   - 'x' is staged as
\* exactly payload:\n  - 'x'.
C12_HeaderPreservation ==
    (Merged /\ calc.format = "yaml") =>
        LET input == SplitLines(ConcatenatedInput)
        IN  /\ Head(SplitLines(calc.body)) = Head(input)
            /\ calc.body =
                   Head(input) \o <<NL>>
                       \o JoinLines(SortedStr(DistinctNonBlank(Tail(input))))
            /\ calc.sources = PayloadSources => calc.body = PayloadBody

\* The payload task has been merged
C12_Witness ==
    Merged /\ calc.format = "yaml" /\ calc.sources = PayloadSources
\* C14: remove_comments_and_empty applied twice gives what it gives applied
\* once, and its result has no blank line and no line whose trimmed form
\* starts with #.
C14_TransformIdempotence ==
    calc.op = "transform" =>
        /\ calc.applied >= 1 =>
               \A l \in SeqToSet(SplitLines(calc.once)) :
                   Strip(l) # <<>> /\ Head(Strip(l)) # "#"
        /\ calc.applied = 2 => calc.twice = calc.once

\* The processor was applied twice to a text of which it dropped a part and
\* kept a part
C14_Witness ==
    /\ calc.op = "transform"
    /\ calc.applied = 2
    /\ calc.once # <<>>
    /\ calc.once # calc.text

\* C18: the paths two distinct tasks write, replace or move (staging file,
\* its .tmp sibling, temporary mrs and the two final files) are disjoint.
C18_DisjointTaskPaths ==
    (calc.op = "paths" /\ calc.written # <<>>) =>
        calc.written[1] \cap calc.written[2] = {}

\* What the processor of that name makes of a text: an unknown name leaves
\* it as it is
Transformed(name, text) ==
    IF name = "remove_comments_and_empty" THEN remove_comments_and_empty(text)
    ELSE IF name = "format_pihole" THEN format_pihole(text)
    ELSE IF name = "format_yaml_list" THEN format_yaml_list(text)
    ELSE text

\* The last processor applied to what the processors before it made of text
RECURSIVE InDeclaredOrder(_, _)
InDeclaredOrder(names, text) ==
    IF names = <<>> THEN text
    ELSE Transformed(names[Len(names)],
                     InDeclaredOrder(SubSeq(names, 1, Len(names) - 1), text))

Terminated(text) ==
    IF text # <<>> /\ text[Len(text)] # NL THEN Append(text, NL) ELSE text

\* C19: the processors of a source are applied in the declared order; an
\* unknown name changes nothing, so the content is that of the known names
\* alone; a source with no or an empty chain is processed with
\* remove_comments_and_empty only.
C19_TransformChain ==
    (calc.op = "source" /\ calc.returned) =>
        LET known == SelectSeq(calc.procs, LAMBDA n : n # "strip_spaces")
        IN  IF calc.procs = <<>>
            THEN calc.content = Terminated(remove_comments_and_empty(calc.raw))
            ELSE /\ calc.content = Terminated(InDeclaredOrder(calc.procs, calc.raw))
                 /\ calc.content = Terminated(InDeclaredOrder(known, calc.raw))

\* A source was processed by two known processors, and the other order
\* would have given another content
C19_Witness ==
    /\ calc.op = "source"
    /\ calc.returned
    /\ Len(calc.procs) = 2
    /\ "strip_spaces" \notin SeqToSet(calc.procs)
    /\ calc.content #
           Terminated(InDeclaredOrder(<<calc.procs[2], calc.procs[1]>>, calc.raw))

\* The contents of the merge that are not blank, in the order of the sources
NonBlankContents == SelectSeq(FetchedContents, LAMBDA c : Strip(c) # <<>>)

\* C20: a content a fetch returns is empty or ends with a newline; hence the
\* lines of the concatenated content are the lines of the first non-blank
\* content, then those of the next, and so on: no line is joined from two
\* sources, and the set of lines is the union of the sets of lines of the
\* non-blank contents.
C20_LineBoundaries ==
    calc.op = "merge" =>
        /\ \A k \in DOMAIN calc.results :
               LET content == calc.results[k][2]
               IN  content = <<>> \/ content[Len(content)] = NL
        /\ Len(calc.results) = Len(calc.sources) =>
               LET lines == SplitLines(CombinedContent(calc.results))
               IN  /\ lines = Concat([k \in DOMAIN NonBlankContents |->
                                         SplitLines(NonBlankContents[k])])
                   /\ SeqToSet(lines) =
                          UNION {SeqToSet(SplitLines(NonBlankContents[k])) :
                                     k \in DOMAIN NonBlankContents}

\* Two non-blank contents were merged, and the response of the first source,
\* which no processor changed, did not end with a newline
C20_Witness ==
    /\ Merged
    /\ Len(NonBlankContents) = 2
    /\ calc.sources[1].procs = <<"strip_spaces">>
    /\ calc.sources[1].raw # <<>>
    /\ calc.sources[1].raw[Len(calc.sources[1].raw)] # NL

(***************************************************************************)
(* Properties of the pipeline, continued                                   *)
(***************************************************************************)

TaskState(pc) ==
    CASE pc = "pending" -> "Pending"
      [] pc = "fetching" -> "Fetching"
      [] pc \in WritePcs -> "Merging"
      [] pc \in {"convert", "move_source", "move_mrs"} -> "Converting"
      [] pc = "done" -> "Done"
      [] pc = "failed" -> "Failed"
      [] OTHER -> "Raised"

TaskTransitions ==
    { <<"Pending", "Fetching">>, <<"Fetching", "Merging">>,
      <<"Merging", "Converting">>, <<"Converting", "Done">>,
      <<"Fetching", "Failed">>, <<"Merging", "Failed">>,
      <<"Converting", "Failed">> }

\* C15: a task goes Pending, Fetching, Merging, Converting, Done, with the
\* error exits of Fetching, Merging and Converting into Failed; merging
\* starts only when every fetch has returned its content, the converter is
\* invoked only when the staged file holds the whole body, Done and Failed
\* are left no more, Done returns the two artifact paths and Failed returns
\* None.
C15_TaskStateMachine ==
    [][\A t \in Tasks :
          LET from == TaskState(taskPc[t])
              to   == TaskState(taskPc'[t])
          IN  from # to =>
                  /\ <<from, to>> \in TaskTransitions
                  /\ to = "Merging" =>
                         \A i \in SourceIdx(t) : fut[t][i].st = "done"
                  /\ to = "Converting" =>
                         files'[StagePath(t)] = FileOf(body[t])
                  /\ to = "Done" =>
                         taskResult'[t] = <<FinalSourcePath(t), FinalMrsPath(t)>>
                  /\ to = "Failed" => taskResult'[t] = <<>>]_vars

\* The fetches a worker is running, over all tasks
AllInFlight == {<<t, i>> \in Tasks \X (0 .. 1) : i \in InFlight(t)}

\* The limits of the two executors hold
WithinLimits ==
    /\ Cardinality(RunningTasks) <= cfg.max_concurrent_tasks
    /\ \A t \in Tasks : Cardinality(InFlight(t)) <= cfg.max_concurrent_downloads
    /\ Cardinality(AllInFlight)
           <= Cardinality(RunningTasks) * cfg.max_concurrent_downloads

\* The process ended before or while the tasks were being processed
ProcessGone == runPc \in {"env_exit", "killed"}

\* C16: at most max_concurrent_tasks tasks are processed at once, at most
\* max_concurrent_downloads fetches of one task are in flight, hence at most
\* their product in all; and every task and every source, also one that had
\* to wait for a worker, is started eventually, unless the process is gone.
C16_ConcurrencyBounds ==
    /\ []WithinLimits
    /\ <>(ProcessGone \/ \A t \in Tasks : taskPc[t] # "pending")
    /\ <>(ProcessGone \/ \A t \in Tasks : \A i \in SourceIdx(t) :
                             fut[t][i].st # "pending")

\* With every limit at 1: task a is fetching its first source while its
\* second source and task b wait
C16_Witness ==
    /\ cfg.max_concurrent_tasks = 1
    /\ cfg.max_concurrent_downloads = 1
    /\ taskPc["a"] = "fetching"
    /\ taskPc["b"] = "pending"
    /\ fut["a"][0].st = "running"
    /\ fut["a"][1].st = "pending"

\* C17: the two moves of _convert_to_mrs act as a pair. When the conversion
\* of a task has ended, either both final files are the new ones and the
\* task succeeded, or neither final file was touched and the task failed.
C17_PairedPromotion ==
    \A t \in Tasks :
        taskPc[t] \in {"done", "failed"} =>
            \/ /\ taskPc[t] = "done"
               /\ files[FinalSourcePath(t)] = FileOf(body[t])
               /\ files[FinalMrsPath(t)] = FileOf(MrsData)
            \/ /\ taskPc[t] = "failed"
               /\ \/ files[FinalSourcePath(t)] = NoFile
                     /\ files[FinalMrsPath(t)] = NoFile
                  \/ files[FinalSourcePath(t)] = FileOf(OldData)
                     /\ files[FinalMrsPath(t)] = FileOf(OldData)

====
